---- MODULE Spec2Model ----
(***************************************************************************)
(* Model of src-tauri/src/cef/mod.rs: the CefBrowserManager (per-tab       *)
(* navigation history with a cursor) and the CefInstancePool (per-tab      *)
(* placement and visibility).  Each manager is a Mutex<HashMap<..>>; every *)
(* method takes the lock for its whole body, so one method call is one     *)
(* atomic action.  The statement-level model runs the same methods as      *)
(* threads that take and drop the lock, and the command surface of         *)
(* src-tauri/src/cef/commands.rs is modelled next to the managers.         *)
(***************************************************************************)
EXTENDS Integers, Sequences, FiniteSets, TLC

\* ---------------------------------------------------------------- bounds
\* Number of history entries pushed since registration, summed over the
\* registered tabs (the first entry of a tab is pushed by its registration).
MaxPush == 3

\* ---------------------------------------------------------------- inputs
Tabs == {"tab-1", "tab-2"}
Urls == {"https://a.test", "https://b.test"}
Titles == {"Example Page"}
PoolTabs == {"tab-1", "tab-2", "tab-3"}
\* (x, y, width, height) arguments of register_instance / update_instance_bounds
Rects == {[x |-> 0, y |-> 0, width |-> 800, height |-> 600],
          [x |-> 100, y |-> 100, width |-> 1024, height |-> 768],
          [x |-> 0, y |-> 50, width |-> 1024, height |-> 600]}

VARIABLES
    browsers,    \* CefBrowserManager.browsers : tab_id -> CefBrowserInfo
    instances,   \* CefInstancePool.instances  : tab_id -> CefInstance
    last,        \* the last call made: method, tab_id and its Result
    known,       \* whether tab_id was a key of the map when that call was made
    pushed,      \* per tab: entries pushed since its registration; the
                 \* next entry pushed gets this number as its serial
    discarded,   \* per tab: serials of the entries removed by truncate()
    trip,        \* per tab: the go-back / go-forward round trip under way
    emit,        \* the app.emit() calls made by the last call, in order
    poisoned,    \* the managers whose Mutex a panicking holder has poisoned
    owner,       \* per manager: the thread holding its MutexGuard, if any
    th,          \* per thread: the method it is running and where it is
    committed    \* per manager: the map after the calls that took the lock,
                 \* each applied as a whole in the order the lock was taken

vars == <<browsers, instances, last, known, pushed, discarded, trip,
          emit, poisoned, owner, th, committed>>

\* ------------------------------------------------------------- HashMap
EmptyMap == <<>>

\* slip: an existing key keeps its value (entry().or_insert)
Insert_KeepsExisting(m, k, v) ==
    IF k \in DOMAIN m THEN m
    ELSE [x \in (DOMAIN m) \cup {k} |-> IF x = k THEN v ELSE m[x]]

Insert(m, k, v) == [x \in (DOMAIN m) \cup {k} |-> IF x = k THEN v ELSE m[x]]

\* slip: the whole map is cleared
Remove_ClearsAll(m, k) == [x \in {} |-> m[x]]

\* slip: nothing is removed
Remove_Nothing(m, k) == m

Remove(m, k) == [x \in (DOMAIN m) \ {k} |-> m[x]]

\* Option<String>
None == <<>>

Some(v) == <<v>>

\* Result<T, AppError> of a call whose lock() succeeded
Ok(v) == [ok |-> TRUE, value |-> v]

\* Err(AppError::InvalidPath(msg))
Err(msg) == [ok |-> FALSE, value |-> <<msg>>]

\* a call that unwound with a panic: it returned nothing
Panicked == [ok |-> FALSE, value |-> <<"panicked">>]

\* ------------------------------------------------------------- Mutex
\* slip: the poison flag is ignored (PoisonError::into_inner)
LockFails_IgnoresPoison(p, m) == FALSE

\* lock() returns Err(PoisonError) once a holder has panicked
LockFails(p, m) == m \in p

\* ------------------------------------------------------------- usize
\* usize::MAX; the integers of the model are 32 bits wide and the largest
\* of them stands for it
UsizeMax == 2147483647

\* a - b on usize where the subtraction wraps (overflow checks off)
UsizeSub(a, b) == IF a >= b THEN a - b ELSE UsizeMax - (b - a) + 1

Call(op, tab, ret) == [op |-> op, tab |-> tab, ret |-> ret]

\* ------------------------------------------------- CefBrowserManager
NavigationHistoryEntry(url, seq) == [url |-> url, title |-> "", seq |-> seq]

\* slip: a new browser is registered as not loading
NewBrowserInfo_NotLoading(tab_id, url, seq) ==
    [tab_id |-> tab_id,
     url |-> url,
     title |-> "",
     is_loading |-> FALSE,
     can_go_back |-> FALSE,
     can_go_forward |-> FALSE,
     history |-> <<NavigationHistoryEntry(url, seq)>>,
     history_index |-> 0]

\* register_browser: the CefBrowserInfo inserted for (tab_id, url)
NewBrowserInfo(tab_id, url, seq) ==
    [tab_id |-> tab_id,
     url |-> url,
     title |-> "",
     is_loading |-> TRUE,
     can_go_back |-> FALSE,
     can_go_forward |-> FALSE,
     history |-> <<NavigationHistoryEntry(url, seq)>>,
     history_index |-> 0]

\* Vec::truncate(len)
Truncate(h, len) == IF len < Len(h) THEN SubSeq(h, 1, len) ELSE h

\* Vec::get(i), zero-based, as an Option
Get(h, i) == IF i >= 0 /\ i < Len(h) THEN Some(h[i + 1]) ELSE None

\* slip: the cursor is set to the length, not to the last index
UrlChanged_IndexIsLen(b, url, seq) ==
    LET h1 == IF b.history_index < UsizeSub(Len(b.history), 1)
              THEN Truncate(b.history, b.history_index + 1)
              ELSE b.history
        h2 == Append(h1, NavigationHistoryEntry(url, seq))
        idx == Len(h2)
    IN [b EXCEPT !.history = h2,
                 !.url = url,
                 !.history_index = idx,
                 !.can_go_back = (idx > 0),
                 !.can_go_forward = FALSE]

\* slip: the forward entries are kept, the new entry is pushed after them
UrlChanged_NoTruncate(b, url, seq) ==
    LET h2 == Append(b.history, NavigationHistoryEntry(url, seq))
        idx == Len(h2) - 1
    IN [b EXCEPT !.history = h2,
                 !.url = url,
                 !.history_index = idx,
                 !.can_go_back = (idx > 0),
                 !.can_go_forward = FALSE]

\* slip: a url already at the cursor is not pushed again
UrlChanged_Dedup(b, url, seq) ==
    IF b.url = url THEN b
    ELSE LET h1 == IF b.history_index < UsizeSub(Len(b.history), 1)
                   THEN Truncate(b.history, b.history_index + 1)
                   ELSE b.history
             h2 == Append(h1, NavigationHistoryEntry(url, seq))
             idx == Len(h2) - 1
         IN [b EXCEPT !.history = h2,
                      !.url = url,
                      !.history_index = idx,
                      !.can_go_back = (idx > 0),
                      !.can_go_forward = FALSE]

\* on_url_change: the body run on the browser found by get_mut
UrlChanged(b, url, seq) ==
    LET h1 == IF b.history_index < UsizeSub(Len(b.history), 1)
              THEN Truncate(b.history, b.history_index + 1)
              ELSE b.history
        h2 == Append(h1, NavigationHistoryEntry(url, seq))
        idx == Len(h2) - 1
    IN [b EXCEPT !.history = h2,
                 !.url = url,
                 !.history_index = idx,
                 !.can_go_back = (idx > 0),
                 !.can_go_forward = FALSE]

\* slip: an entry that already has a title keeps it
TitleChanged_KeepsExisting(b, title) ==
    LET i == b.history_index
    IN [b EXCEPT !.title = title,
                 !.history = IF Get(b.history, i) # None
                                /\ b.history[i + 1].title = ""
                             THEN [b.history EXCEPT ![i + 1].title = title]
                             ELSE b.history]

\* slip: the title of the entry at the cursor is not updated
TitleChanged_NoBackfill(b, title) == [b EXCEPT !.title = title]

\* on_title_change: the body run on the browser found by get_mut
TitleChanged(b, title) ==
    LET i == b.history_index
    IN [b EXCEPT !.title = title,
                 !.history = IF Get(b.history, i) # None
                             THEN [b.history EXCEPT ![i + 1].title = title]
                             ELSE b.history]

\* slip: any loading event marks the browser as loaded
LoadingStateChanged_AlwaysFalse(b, is_loading) == [b EXCEPT !.is_loading = FALSE]

\* on_loading_state_change: the body run on the browser found by get_mut
LoadingStateChanged(b, is_loading) == [b EXCEPT !.is_loading = is_loading]

\* slip: the title of the browser is reloaded from the entry gone back to
WentBack_ReloadsTitle(b) ==
    IF b.history_index > 0
    THEN LET idx == b.history_index - 1
             b1 == [b EXCEPT !.history_index = idx,
                             !.can_go_back = (idx > 0),
                             !.can_go_forward = TRUE]
             entry == Get(b.history, idx)
         IN IF entry # None
            THEN [info |-> [b1 EXCEPT !.url = entry[1].url,
                                      !.title = entry[1].title],
                  ret |-> Some(entry[1].url)]
            ELSE [info |-> b1, ret |-> None]
    ELSE [info |-> b, ret |-> None]

\* slip: can_go_forward is not set by a go-back
WentBack_KeepsForwardFlag(b) ==
    IF b.history_index > 0
    THEN LET idx == b.history_index - 1
             b1 == [b EXCEPT !.history_index = idx,
                             !.can_go_back = (idx > 0)]
             entry == Get(b.history, idx)
         IN IF entry # None
            THEN [info |-> [b1 EXCEPT !.url = entry[1].url],
                  ret |-> Some(entry[1].url)]
            ELSE [info |-> b1, ret |-> None]
    ELSE [info |-> b, ret |-> None]

\* slip: the flags are written before the boundary test
WentBack_FlagsBeforeGuard(b) ==
    LET b0 == [b EXCEPT !.can_go_forward = TRUE]
    IN IF b.history_index > 0
       THEN LET idx == b.history_index - 1
                b1 == [b0 EXCEPT !.history_index = idx,
                                 !.can_go_back = (idx > 0)]
                entry == Get(b.history, idx)
            IN IF entry # None
               THEN [info |-> [b1 EXCEPT !.url = entry[1].url],
                     ret |-> Some(entry[1].url)]
               ELSE [info |-> b1, ret |-> None]
       ELSE [info |-> b0, ret |-> None]

\* slip: the entry is read at the cursor as it was before the decrement
WentBack_ReadsOldEntry(b) ==
    IF b.history_index > 0
    THEN LET idx == b.history_index - 1
             b1 == [b EXCEPT !.history_index = idx,
                             !.can_go_back = (idx > 0),
                             !.can_go_forward = TRUE]
             entry == Get(b.history, b.history_index)
         IN IF entry # None
            THEN [info |-> [b1 EXCEPT !.url = entry[1].url],
                  ret |-> Some(entry[1].url)]
            ELSE [info |-> b1, ret |-> None]
    ELSE [info |-> b, ret |-> None]

\* on_go_back: the body run on the browser found by get_mut
WentBack(b) ==
    IF b.history_index > 0
    THEN LET idx == b.history_index - 1
             b1 == [b EXCEPT !.history_index = idx,
                             !.can_go_back = (idx > 0),
                             !.can_go_forward = TRUE]
             entry == Get(b.history, idx)
         IN IF entry # None
            THEN [info |-> [b1 EXCEPT !.url = entry[1].url],
                  ret |-> Some(entry[1].url)]
            ELSE [info |-> b1, ret |-> None]
    ELSE [info |-> b, ret |-> None]

\* slip: the url of the browser is not updated by a go-forward
WentForward_KeepsUrl(b) ==
    IF b.history_index < UsizeSub(Len(b.history), 1)
    THEN LET idx == b.history_index + 1
             b1 == [b EXCEPT !.history_index = idx,
                             !.can_go_forward = (idx < UsizeSub(Len(b.history), 1)),
                             !.can_go_back = TRUE]
             entry == Get(b.history, idx)
         IN IF entry # None
            THEN [info |-> b1, ret |-> Some(entry[1].url)]
            ELSE [info |-> b1, ret |-> None]
    ELSE [info |-> b, ret |-> None]

\* slip: can_go_back is not set by a go-forward
WentForward_KeepsBackFlag(b) ==
    IF b.history_index < UsizeSub(Len(b.history), 1)
    THEN LET idx == b.history_index + 1
             b1 == [b EXCEPT !.history_index = idx,
                             !.can_go_forward = (idx < UsizeSub(Len(b.history), 1))]
             entry == Get(b.history, idx)
         IN IF entry # None
            THEN [info |-> [b1 EXCEPT !.url = entry[1].url],
                  ret |-> Some(entry[1].url)]
            ELSE [info |-> b1, ret |-> None]
    ELSE [info |-> b, ret |-> None]

\* on_go_forward: the body run on the browser found by get_mut
WentForward(b) ==
    IF b.history_index < UsizeSub(Len(b.history), 1)
    THEN LET idx == b.history_index + 1
             b1 == [b EXCEPT !.history_index = idx,
                             !.can_go_forward = (idx < UsizeSub(Len(b.history), 1)),
                             !.can_go_back = TRUE]
             entry == Get(b.history, idx)
         IN IF entry # None
            THEN [info |-> [b1 EXCEPT !.url = entry[1].url],
                  ret |-> Some(entry[1].url)]
            ELSE [info |-> b1, ret |-> None]
    ELSE [info |-> b, ret |-> None]

\* get_browser: on the locked map
get_browser(m, tab_id) == IF tab_id \in DOMAIN m THEN Some(m[tab_id]) ELSE None

\* ------------------------------------------------------ observers
RECURSIVE SumOver(_)
SumOver(S) == IF S = {} THEN 0
              ELSE LET t == CHOOSE x \in S : TRUE
                   IN pushed[t] + SumOver(S \ {t})

\* serials of the entries after the cursor: those truncate(history_index + 1)
\* is called to remove
ForwardSeqs(b) ==
    {b.history[i].seq : i \in (b.history_index + 2)..Len(b.history)}

NoTrip == [active |-> FALSE, orig |-> <<>>, backs |-> 0, fwds |-> 0]

\* A round trip starts with a go-back from the last entry, goes on with
\* go-backs, then with go-forwards; any other call on the tab ends it.
TripAfterBack(tr, b, moved) ==
    IF ~moved THEN NoTrip
    ELSE IF tr.active /\ tr.fwds = 0
         THEN [tr EXCEPT !.backs = tr.backs + 1]
    ELSE IF b.history_index = Len(b.history) - 1
         THEN [active |-> TRUE, orig |-> <<b>>, backs |-> 1, fwds |-> 0]
    ELSE NoTrip

TripAfterForward(tr, moved) ==
    IF moved /\ tr.active /\ tr.fwds < tr.backs
    THEN [tr EXCEPT !.fwds = tr.fwds + 1]
    ELSE NoTrip

\* entries pushed by the tabs other than tab_id
PushedElsewhere(tab_id) == SumOver(Tabs \ {tab_id})

\* the outcomes of evaluating history.len() - 1 on the browser of tab_id:
\* on an empty history the subtraction panics where overflow checks are
\* compiled in and wraps where they are not
LenMinusOne(m, tab_id) ==
    IF tab_id \in DOMAIN m /\ Len(m[tab_id].history) = 0
    THEN {"panic", "wrap"}
    ELSE {"exact"}

\* what a method leaves alone when it returns: no notification is emitted,
\* no lock is poisoned, and the threads of the statement-level model rest
Returned ==
    /\ emit' = <<>>
    /\ UNCHANGED <<poisoned, owner, th, committed>>

\* lock() failed: map_err(..)? returns the error before the body runs
lock_failed(op, tab_id, msg) ==
    /\ last' = Call(op, tab_id, Err(msg))
    /\ UNCHANGED <<browsers, instances, pushed, discarded, trip>>
    /\ Returned

\* the body panicked with the guard alive: unwinding drops the guard, which
\* poisons the Mutex of manager m
panicked(op, tab_id, m) ==
    /\ last' = Call(op, tab_id, Panicked)
    /\ poisoned' = poisoned \cup {m}
    /\ emit' = <<>>
    /\ UNCHANGED <<browsers, instances, pushed, discarded, trip,
                   owner, th, committed>>

register_browser(tab_id, url) ==
    /\ known' = (tab_id \in DOMAIN browsers)
    /\ IF LockFails(poisoned, "browsers")
       THEN lock_failed("register_browser", tab_id,
                        "Failed to lock browser manager")
       ELSE /\ PushedElsewhere(tab_id) < MaxPush
            /\ browsers' = Insert(browsers, tab_id,
                                  NewBrowserInfo(tab_id, url, 0))
            /\ pushed' = [pushed EXCEPT ![tab_id] = 1]
            /\ discarded' = [discarded EXCEPT ![tab_id] = {}]
            /\ trip' = [trip EXCEPT ![tab_id] = NoTrip]
            /\ last' = Call("register_browser", tab_id, Ok(None))
            /\ UNCHANGED instances
            /\ Returned

unregister_browser(tab_id) ==
    /\ known' = (tab_id \in DOMAIN browsers)
    /\ IF LockFails(poisoned, "browsers")
       THEN lock_failed("unregister_browser", tab_id,
                        "Failed to lock browser manager")
       ELSE /\ browsers' = Remove(browsers, tab_id)
            /\ discarded' = [discarded EXCEPT ![tab_id] = {}]
            /\ trip' = [trip EXCEPT ![tab_id] = NoTrip]
            /\ pushed' = [pushed EXCEPT ![tab_id] = 0]
            /\ last' = Call("unregister_browser", tab_id, Ok(None))
            /\ UNCHANGED instances
            /\ Returned

\* info is stored as given, under tab_id
update_browser(tab_id, info) ==
    /\ known' = (tab_id \in DOMAIN browsers)
    /\ IF LockFails(poisoned, "browsers")
       THEN lock_failed("update_browser", tab_id,
                        "Failed to lock browser manager")
       ELSE /\ browsers' = Insert(browsers, tab_id, info)
            /\ pushed' = [pushed EXCEPT ![tab_id] = Len(info.history)]
            /\ discarded' = [discarded EXCEPT ![tab_id] = {}]
            /\ trip' = [trip EXCEPT ![tab_id] = NoTrip]
            /\ last' = Call("update_browser", tab_id, Ok(None))
            /\ UNCHANGED instances
            /\ Returned

\* get_browser: the method call, returning a clone of the record
get_browser_call(tab_id) ==
    /\ known' = (tab_id \in DOMAIN browsers)
    /\ IF LockFails(poisoned, "browsers")
       THEN lock_failed("get_browser", tab_id,
                        "Failed to lock browser manager")
       ELSE /\ last' = Call("get_browser", tab_id,
                            Ok(get_browser(browsers, tab_id)))
            /\ UNCHANGED <<browsers, instances, pushed, discarded, trip>>
            /\ Returned

on_url_change(tab_id, url) ==
    /\ known' = (tab_id \in DOMAIN browsers)
    /\ \E o \in LenMinusOne(browsers, tab_id) :
       IF LockFails(poisoned, "browsers")
       THEN lock_failed("on_url_change", tab_id,
                        "Failed to lock browser manager")
       ELSE IF o = "panic"
       THEN panicked("on_url_change", tab_id, "browsers")
       ELSE /\ IF tab_id \in DOMAIN browsers
               THEN LET b == browsers[tab_id]
                        b2 == UrlChanged(b, url, pushed[tab_id])
                    IN /\ PushedElsewhere(tab_id) + pushed[tab_id] < MaxPush
                       /\ browsers' = [browsers EXCEPT ![tab_id] = b2]
                       /\ pushed' = [pushed EXCEPT ![tab_id] = @ + 1]
                       /\ discarded' = [discarded EXCEPT ![tab_id] =
                                           @ \cup ForwardSeqs(b)]
               ELSE UNCHANGED <<browsers, pushed, discarded>>
            /\ trip' = [trip EXCEPT ![tab_id] = NoTrip]
            /\ last' = Call("on_url_change", tab_id, Ok(None))
            /\ UNCHANGED instances
            /\ Returned

on_title_change(tab_id, title) ==
    /\ known' = (tab_id \in DOMAIN browsers)
    /\ IF LockFails(poisoned, "browsers")
       THEN lock_failed("on_title_change", tab_id,
                        "Failed to lock browser manager")
       ELSE /\ IF tab_id \in DOMAIN browsers
               THEN browsers' = [browsers EXCEPT
                                    ![tab_id] = TitleChanged(@, title)]
               ELSE UNCHANGED browsers
            /\ trip' = [trip EXCEPT ![tab_id] = NoTrip]
            /\ last' = Call("on_title_change", tab_id, Ok(None))
            /\ UNCHANGED <<instances, pushed, discarded>>
            /\ Returned

on_loading_state_change(tab_id, is_loading) ==
    /\ known' = (tab_id \in DOMAIN browsers)
    /\ IF LockFails(poisoned, "browsers")
       THEN lock_failed("on_loading_state_change", tab_id,
                        "Failed to lock browser manager")
       ELSE /\ IF tab_id \in DOMAIN browsers
               THEN browsers' = [browsers EXCEPT ![tab_id] =
                                    LoadingStateChanged(@, is_loading)]
               ELSE UNCHANGED browsers
            /\ trip' = [trip EXCEPT ![tab_id] = NoTrip]
            /\ last' = Call("on_loading_state_change", tab_id, Ok(None))
            /\ UNCHANGED <<instances, pushed, discarded>>
            /\ Returned

on_go_back(tab_id) ==
    /\ known' = (tab_id \in DOMAIN browsers)
    /\ IF LockFails(poisoned, "browsers")
       THEN lock_failed("on_go_back", tab_id,
                        "Failed to lock browser manager")
       ELSE /\ IF tab_id \in DOMAIN browsers
               THEN LET b == browsers[tab_id]
                        r == WentBack(b)
                    IN /\ browsers' = [browsers EXCEPT ![tab_id] = r.info]
                       /\ trip' = [trip EXCEPT ![tab_id] =
                                      TripAfterBack(@, b, r.ret # None)]
                       /\ last' = Call("on_go_back", tab_id, Ok(r.ret))
               ELSE /\ UNCHANGED browsers
                    /\ trip' = [trip EXCEPT ![tab_id] = NoTrip]
                    /\ last' = Call("on_go_back", tab_id, Ok(None))
            /\ UNCHANGED <<instances, pushed, discarded>>
            /\ Returned

on_go_forward(tab_id) ==
    /\ known' = (tab_id \in DOMAIN browsers)
    /\ \E o \in LenMinusOne(browsers, tab_id) :
       IF LockFails(poisoned, "browsers")
       THEN lock_failed("on_go_forward", tab_id,
                        "Failed to lock browser manager")
       ELSE IF o = "panic"
       THEN panicked("on_go_forward", tab_id, "browsers")
       ELSE /\ IF tab_id \in DOMAIN browsers
               THEN LET b == browsers[tab_id]
                        r == WentForward(b)
                    IN /\ browsers' = [browsers EXCEPT ![tab_id] = r.info]
                       /\ trip' = [trip EXCEPT ![tab_id] =
                                      TripAfterForward(@, r.ret # None)]
                       /\ last' = Call("on_go_forward", tab_id, Ok(r.ret))
               ELSE /\ UNCHANGED browsers
                    /\ trip' = [trip EXCEPT ![tab_id] = NoTrip]
                    /\ last' = Call("on_go_forward", tab_id, Ok(None))
            /\ UNCHANGED <<instances, pushed, discarded>>
            /\ Returned

\* --------------------------------------------------- CefInstancePool
\* register_instance: the CefInstance inserted
NewCefInstance(tab_id, x, y, width, height) ==
    [tab_id |-> tab_id, is_visible |-> TRUE,
     x |-> x, y |-> y, width |-> width, height |-> height]

\* slip: a record already in the pool keeps its visibility
Registered_KeepsVisibility(m, tab_id, x, y, width, height) ==
    Insert(m, tab_id,
           [NewCefInstance(tab_id, x, y, width, height) EXCEPT
               !.is_visible = IF tab_id \in DOMAIN m
                              THEN m[tab_id].is_visible
                              ELSE TRUE])

\* slip: registering hides the instances already in the pool
Registered_HidesOthers(m, tab_id, x, y, width, height) ==
    Insert([k \in DOMAIN m |-> [m[k] EXCEPT !.is_visible = FALSE]], tab_id,
           NewCefInstance(tab_id, x, y, width, height))

\* register_instance: the whole body, on the locked map
Registered(m, tab_id, x, y, width, height) ==
    Insert(m, tab_id, NewCefInstance(tab_id, x, y, width, height))

\* show_instance: the first loop, "hide all instances"
HideAll(m) == [k \in DOMAIN m |-> [m[k] EXCEPT !.is_visible = FALSE]]

\* slip: the target is shown without hiding the others
Shown_NoHideAll(m, tab_id) ==
    IF tab_id \in DOMAIN m
    THEN [m EXCEPT ![tab_id].is_visible = TRUE]
    ELSE m

\* slip: an absent target leaves the pool as it is
Shown_NothingWhenAbsent(m, tab_id) ==
    IF tab_id \in DOMAIN m
    THEN [k \in DOMAIN m |-> [m[k] EXCEPT !.is_visible = (k = tab_id)]]
    ELSE m

\* show_instance: the whole body, on the locked map
Shown(m, tab_id) ==
    LET hidden == HideAll(m)
    IN IF tab_id \in DOMAIN hidden
       THEN [hidden EXCEPT ![tab_id].is_visible = TRUE]
       ELSE hidden

\* unregister_instance: the whole body, on the locked map
\* slip: when the removal leaves no instance visible, a remaining one is shown
Unregistered_ShowsNext(m, tab_id) ==
    LET rest == Remove(m, tab_id)
    IN IF DOMAIN rest # {} /\ \A k \in DOMAIN rest : ~rest[k].is_visible
       THEN LET n == CHOOSE k \in DOMAIN rest : TRUE
            IN [rest EXCEPT ![n].is_visible = TRUE]
       ELSE rest

Unregistered(m, tab_id) == Remove(m, tab_id)

\* slip: the flag is toggled instead of cleared
Hidden_Toggles(m, tab_id) ==
    IF tab_id \in DOMAIN m
    THEN [m EXCEPT ![tab_id].is_visible = ~m[tab_id].is_visible]
    ELSE m

\* slip: every instance is hidden
Hidden_HidesAll(m, tab_id) ==
    [k \in DOMAIN m |-> [m[k] EXCEPT !.is_visible = FALSE]]

\* hide_instance: the whole body, on the locked map
Hidden(m, tab_id) ==
    IF tab_id \in DOMAIN m
    THEN [m EXCEPT ![tab_id].is_visible = FALSE]
    ELSE m

\* slip: placing an instance also makes it visible
BoundsUpdated_Shows(m, tab_id, x, y, width, height) ==
    IF tab_id \in DOMAIN m
    THEN [m EXCEPT ![tab_id].x = x, ![tab_id].y = y,
                   ![tab_id].width = width, ![tab_id].height = height,
                   ![tab_id].is_visible = TRUE]
    ELSE m

\* slip: an absent tab_id gets a record (entry().or_insert)
BoundsUpdated_Upserts(m, tab_id, x, y, width, height) ==
    IF tab_id \in DOMAIN m
    THEN [m EXCEPT ![tab_id].x = x, ![tab_id].y = y,
                   ![tab_id].width = width, ![tab_id].height = height]
    ELSE Insert(m, tab_id, NewCefInstance(tab_id, x, y, width, height))

\* update_instance_bounds: the whole body, on the locked map
BoundsUpdated(m, tab_id, x, y, width, height) ==
    IF tab_id \in DOMAIN m
    THEN [m EXCEPT ![tab_id].x = x, ![tab_id].y = y,
                   ![tab_id].width = width, ![tab_id].height = height]
    ELSE m

\* get_visible_instance_count
get_visible_instance_count(m) ==
    Cardinality({k \in DOMAIN m : m[k].is_visible})

\* get_instance_count
get_instance_count(m) == Cardinality(DOMAIN m)

register_instance(tab_id, x, y, width, height) ==
    /\ known' = (tab_id \in DOMAIN instances)
    /\ IF LockFails(poisoned, "instances")
       THEN lock_failed("register_instance", tab_id, "Failed to lock instance pool")
       ELSE /\ instances' = Registered(instances, tab_id, x, y, width, height)
            /\ last' = Call("register_instance", tab_id, Ok(None))
            /\ UNCHANGED <<browsers, pushed, discarded, trip>>
            /\ Returned

unregister_instance(tab_id) ==
    /\ known' = (tab_id \in DOMAIN instances)
    /\ IF LockFails(poisoned, "instances")
       THEN lock_failed("unregister_instance", tab_id, "Failed to lock instance pool")
       ELSE /\ instances' = Unregistered(instances, tab_id)
            /\ last' = Call("unregister_instance", tab_id, Ok(None))
            /\ UNCHANGED <<browsers, pushed, discarded, trip>>
            /\ Returned

show_instance(tab_id) ==
    /\ known' = (tab_id \in DOMAIN instances)
    /\ IF LockFails(poisoned, "instances")
       THEN lock_failed("show_instance", tab_id, "Failed to lock instance pool")
       ELSE /\ instances' = Shown(instances, tab_id)
            /\ last' = Call("show_instance", tab_id, Ok(None))
            /\ UNCHANGED <<browsers, pushed, discarded, trip>>
            /\ Returned

hide_instance(tab_id) ==
    /\ known' = (tab_id \in DOMAIN instances)
    /\ IF LockFails(poisoned, "instances")
       THEN lock_failed("hide_instance", tab_id, "Failed to lock instance pool")
       ELSE /\ instances' = Hidden(instances, tab_id)
            /\ last' = Call("hide_instance", tab_id, Ok(None))
            /\ UNCHANGED <<browsers, pushed, discarded, trip>>
            /\ Returned

update_instance_bounds(tab_id, x, y, width, height) ==
    /\ known' = (tab_id \in DOMAIN instances)
    /\ IF LockFails(poisoned, "instances")
       THEN lock_failed("update_instance_bounds", tab_id, "Failed to lock instance pool")
       ELSE /\ instances' = BoundsUpdated(instances, tab_id, x, y, width, height)
            /\ last' = Call("update_instance_bounds", tab_id, Ok(None))
            /\ UNCHANGED <<browsers, pushed, discarded, trip>>
            /\ Returned

\* get_visible_instance_count: the method call
get_visible_instance_count_call ==
    /\ known' = FALSE
    /\ IF LockFails(poisoned, "instances")
       THEN lock_failed("get_visible_instance_count", "",
                        "Failed to lock instance pool")
       ELSE /\ last' = Call("get_visible_instance_count", "",
                            Ok(Some(get_visible_instance_count(instances))))
            /\ UNCHANGED <<browsers, instances, pushed, discarded, trip>>
            /\ Returned

\* the two Mutex-guarded maps
Managers == {"browsers", "instances"}

\* the callers: the UI thread and the engine's callback thread
Threads == {"ui", "engine"}

\* no thread holds the guard
NoThread == ""

\* a thread that is not inside a method
Resting == [pc |-> "idle"]

\* ------------------------------------------- statement-level model
\* The callers as threads.  A call takes the Mutex of its manager, runs the
\* body one statement at a time with the guard alive, and drops the guard
\* when it returns.

\* the Mutex a method locks
ManagerOf(op) ==
    IF op \in {"register_instance", "show_instance",
               "get_visible_instance_count"}
    THEN "instances"
    ELSE "browsers"

\* slip: lock() is replaced by a try_lock() whose failure is ignored
CanLock_Always(o, m) == TRUE

\* slip: the pool is read and written without holding its lock
CanLock_PoolUnguarded(o, m) == m = "instances" \/ o[m] = NoThread

\* slip: the browser map is read and written without holding its lock
CanLock_BrowsersUnguarded(o, m) == m = "browsers" \/ o[m] = NoThread

\* lock() returns once no other guard of the Mutex is alive
CanLock(o, m) == o[m] = NoThread

\* slip: the guard is leaked (mem::forget) and the Mutex stays locked
Released_Leaks(o, m) == o

\* the guard is dropped at the end of the method
Released(o, m) == [o EXCEPT ![m] = NoThread]

\* the next statement is ip
Goto(b, ip) == [info |-> b, ip |-> ip, ret |-> None]

\* the method returns ret
Return(b, ret) == [info |-> b, ip |-> 0, ret |-> ret]

\* "if let Some(entry) = browser.history.get(browser.history_index)" with
\* its body, the last statement of on_go_back and on_go_forward
UrlFromCursor(b) ==
    LET entry == Get(b.history, b.history_index)
    IN IF entry # None
       THEN Return([b EXCEPT !.url = entry[1].url], Some(entry[1].url))
       ELSE Return(b, None)

\* statement ip of the body a method runs on the browser found by get_mut
Statement(op, ip, b, arg, seq) ==
    CASE op = "on_url_change" /\ ip = 1 ->
            Goto(IF b.history_index < UsizeSub(Len(b.history), 1)
                 THEN [b EXCEPT !.history =
                                   Truncate(b.history, b.history_index + 1)]
                 ELSE b, 2)
      [] op = "on_url_change" /\ ip = 2 ->
            Goto([b EXCEPT !.history =
                              Append(@, NavigationHistoryEntry(arg, seq))], 3)
      [] op = "on_url_change" /\ ip = 3 ->
            Goto([b EXCEPT !.url = arg], 4)
      [] op = "on_url_change" /\ ip = 4 ->
            Goto([b EXCEPT !.history_index = UsizeSub(Len(b.history), 1)], 5)
      [] op = "on_url_change" /\ ip = 5 ->
            Goto([b EXCEPT !.can_go_back = (b.history_index > 0)], 6)
      [] op = "on_url_change" /\ ip = 6 ->
            Return([b EXCEPT !.can_go_forward = FALSE], None)
      [] op = "on_title_change" /\ ip = 1 ->
            Goto([b EXCEPT !.title = arg], 2)
      [] op = "on_title_change" /\ ip = 2 ->
            Return(IF Get(b.history, b.history_index) # None
                   THEN [b EXCEPT !.history[b.history_index + 1].title = arg]
                   ELSE b, None)
      [] op = "on_loading_state_change" ->
            Return([b EXCEPT !.is_loading = arg], None)
      [] op = "on_go_back" /\ ip = 1 ->
            IF b.history_index > 0
            THEN Goto([b EXCEPT !.history_index = @ - 1], 2)
            ELSE Return(b, None)
      [] op = "on_go_back" /\ ip = 2 ->
            Goto([b EXCEPT !.can_go_back = (b.history_index > 0)], 3)
      [] op = "on_go_back" /\ ip = 3 ->
            Goto([b EXCEPT !.can_go_forward = TRUE], 4)
      [] op = "on_go_forward" /\ ip = 1 ->
            IF b.history_index < UsizeSub(Len(b.history), 1)
            THEN Goto([b EXCEPT !.history_index = @ + 1], 2)
            ELSE Return(b, None)
      [] op = "on_go_forward" /\ ip = 2 ->
            Goto([b EXCEPT !.can_go_forward =
                              (b.history_index < UsizeSub(Len(b.history), 1))],
                 3)
      [] op = "on_go_forward" /\ ip = 3 ->
            Goto([b EXCEPT !.can_go_back = TRUE], 4)
      [] OTHER -> UrlFromCursor(b)

\* the map a call leaves when its whole body runs on map m
Applied(op, tab_id, arg, m, seq) ==
    CASE op = "register_browser" ->
            Insert(m, tab_id, NewBrowserInfo(tab_id, arg, 0))
      [] op = "register_instance" ->
            Registered(m, tab_id, arg.x, arg.y, arg.width, arg.height)
      [] op = "show_instance" -> Shown(m, tab_id)
      [] op \in {"get_browser", "get_visible_instance_count"} -> m
      [] OTHER ->
            IF tab_id \notin DOMAIN m THEN m
            ELSE [m EXCEPT ![tab_id] =
                    CASE op = "on_url_change" -> UrlChanged(@, arg, seq)
                      [] op = "on_title_change" -> TitleChanged(@, arg)
                      [] op = "on_loading_state_change" ->
                            LoadingStateChanged(@, arg)
                      [] op = "on_go_back" -> WentBack(@).info
                      [] op = "on_go_forward" -> WentForward(@).info]

\* the value that call returns
Returns(op, tab_id, m) ==
    CASE op = "get_browser" -> get_browser(m, tab_id)
      [] op = "get_visible_instance_count" ->
            Some(get_visible_instance_count(m))
      [] op = "on_go_back" /\ tab_id \in DOMAIN m -> WentBack(m[tab_id]).ret
      [] op = "on_go_forward" /\ tab_id \in DOMAIN m ->
            WentForward(m[tab_id]).ret
      [] OTHER -> None

\* a call under way that has not pushed its history entry yet
NotYetPushed(r) ==
    /\ r.pc # "idle"
    /\ \/ r.op = "register_browser" /\ r.pc \in {"lock", "body"}
       \/ r.op = "on_url_change" /\ (r.pc = "lock" \/ (r.pc = "body" /\ r.ip <= 2))

\* thread t calls a method
call(t, op, tab_id, arg) ==
    /\ th[t].pc = "idle"
    /\ op \in {"register_browser", "on_url_change"} =>
          SumOver(Tabs) + Cardinality({u \in Threads : NotYetPushed(th[u])})
             < MaxPush
    /\ th' = [th EXCEPT ![t] =
                [pc |-> "lock", op |-> op, tab |-> tab_id, arg |-> arg,
                 ip |-> 0, todo |-> {}, ret |-> None, want |-> None,
                 known |-> FALSE]]
    /\ UNCHANGED <<browsers, instances, last, known, pushed, discarded, trip,
                   emit, poisoned, owner, committed>>

\* self.<map>.lock().map_err(..)?
lock(t) ==
    /\ th[t].pc = "lock"
    /\ LET r == th[t]
           m == ManagerOf(r.op)
           map == IF m = "browsers" THEN browsers ELSE instances
       IN IF LockFails(poisoned, m)
          THEN /\ th' = [th EXCEPT ![t] = Resting]
               /\ last' = Call(r.op, r.tab,
                               Err(IF m = "browsers"
                                   THEN "Failed to lock browser manager"
                                   ELSE "Failed to lock instance pool"))
               /\ known' = (r.tab \in DOMAIN map)
               /\ emit' = <<>>
               /\ UNCHANGED <<browsers, instances, pushed, discarded, trip,
                              poisoned, owner, committed>>
          ELSE /\ CanLock(owner, m)
               /\ owner' = [owner EXCEPT ![m] = t]
               /\ committed' =
                     [committed EXCEPT ![m] =
                         Applied(r.op, r.tab, r.arg, @,
                                 IF r.tab \in Tabs THEN pushed[r.tab] ELSE 0)]
               /\ th' = [th EXCEPT ![t] =
                           [r EXCEPT !.pc = "body", !.ip = 1,
                                     !.todo = DOMAIN instances,
                                     !.want = Returns(r.op, r.tab, committed[m]),
                                     !.known = (r.tab \in DOMAIN map)]]
               /\ UNCHANGED <<browsers, instances, last, known, pushed,
                              discarded, trip, emit, poisoned>>

\* the thread goes on to statement ip, or to its return with ret
Advance(t, ip, ret) ==
    th' = [th EXCEPT ![t] = IF ip = 0
                            THEN [@ EXCEPT !.pc = "unlock", !.ret = ret]
                            ELSE [@ EXCEPT !.ip = ip]]

\* one statement of a CefBrowserManager method, under the guard
browser_statement(t) ==
    /\ th[t].pc = "body"
    /\ ManagerOf(th[t].op) = "browsers"
    /\ LET r == th[t]
       IN CASE r.op = "register_browser" ->
                  /\ browsers' = Insert(browsers, r.tab,
                                        NewBrowserInfo(r.tab, r.arg, 0))
                  /\ pushed' = [pushed EXCEPT ![r.tab] = 1]
                  /\ Advance(t, 0, None)
            [] r.op = "get_browser" ->
                  /\ Advance(t, 0, get_browser(browsers, r.tab))
                  /\ UNCHANGED <<browsers, pushed>>
            [] OTHER ->
                  IF r.tab \notin DOMAIN browsers
                  THEN /\ Advance(t, 0, None)
                       /\ UNCHANGED <<browsers, pushed>>
                  ELSE LET st == Statement(r.op, r.ip, browsers[r.tab], r.arg,
                                           pushed[r.tab])
                       IN /\ browsers' = [browsers EXCEPT ![r.tab] = st.info]
                          /\ pushed' = IF r.op = "on_url_change" /\ r.ip = 2
                                       THEN [pushed EXCEPT ![r.tab] = @ + 1]
                                       ELSE pushed
                          /\ Advance(t, st.ip, st.ret)
    /\ UNCHANGED <<instances, last, known, discarded, trip, emit, poisoned,
                   owner, committed>>

\* one statement of a CefInstancePool method, under the guard; the loop of
\* show_instance visits the records in the order values_mut() yields them
pool_statement(t) ==
    /\ th[t].pc = "body"
    /\ ManagerOf(th[t].op) = "instances"
    /\ LET r == th[t]
           left == r.todo \cap DOMAIN instances
       IN CASE r.op = "register_instance" ->
                  /\ instances' = Registered(instances, r.tab, r.arg.x,
                                             r.arg.y, r.arg.width,
                                             r.arg.height)
                  /\ Advance(t, 0, None)
            [] r.op = "get_visible_instance_count" ->
                  /\ Advance(t, 0, Some(get_visible_instance_count(instances)))
                  /\ UNCHANGED instances
            [] OTHER ->
                  IF left # {}
                  THEN \E k \in left :
                          /\ instances' =
                                [instances EXCEPT ![k].is_visible = FALSE]
                          /\ th' = [th EXCEPT ![t].todo = left \ {k}]
                  ELSE /\ instances' =
                             IF r.tab \in DOMAIN instances
                             THEN [instances EXCEPT ![r.tab].is_visible = TRUE]
                             ELSE instances
                       /\ Advance(t, 0, None)
    /\ UNCHANGED <<browsers, last, known, pushed, discarded, trip, emit,
                   poisoned, owner, committed>>

\* Ok(..): the method returns and its guard is dropped
unlock(t) ==
    /\ th[t].pc = "unlock"
    /\ owner' = Released(owner, ManagerOf(th[t].op))
    /\ th' = [th EXCEPT ![t] = Resting]
    /\ last' = Call(th[t].op, th[t].tab, Ok(th[t].ret))
    /\ known' = th[t].known
    /\ emit' = <<>>
    /\ UNCHANGED <<browsers, instances, pushed, discarded, trip, poisoned,
                   committed>>

\* ------------------------------------------------- command surface
\* (commands.rs) Every command validates its arguments, emits at most one
\* event with `let _ = app.emit(..)` and returns; none of them calls a
\* manager.

\* the first validation that fails, as the message of its error
RECURSIVE FirstError(_)
FirstError(checks) ==
    IF checks = <<>> THEN None
    ELSE IF Head(checks)[1] THEN Some(Head(checks)[2])
    ELSE FirstError(Tail(checks))

\* one app.emit(topic, payload) call and whether it returned Ok
Emitted(topic, tab_id, delivered) ==
    [topic |-> topic, tab_id |-> tab_id, delivered |-> delivered]

\* slip: the result of emit is propagated (app.emit(..)?)
CommandResult_PropagatesEmit(value, emits) ==
    IF \E i \in 1..Len(emits) : ~emits[i].delivered
    THEN Err("failed to emit event")
    ELSE Ok(value)

\* the value a command returns after `let _ = app.emit(..)`
CommandResult(value, emits) == Ok(value)

\* slip: a command fails for a tab id that no manager knows
command_RequiresKnownTab(op, tab_id, checks, topics, value) ==
    /\ known' = (tab_id \in DOMAIN browsers \cup DOMAIN instances)
    /\ LET e == FirstError(checks)
       IN IF e # None
          THEN /\ last' = Call(op, tab_id, Err(e[1]))
               /\ emit' = <<>>
          ELSE IF tab_id \notin DOMAIN browsers \cup DOMAIN instances
          THEN /\ last' = Call(op, tab_id, Err("unknown tab"))
               /\ emit' = <<>>
          ELSE \E delivered \in BOOLEAN :
                  LET emits == [i \in 1..Len(topics) |->
                                   Emitted(topics[i], tab_id, delivered)]
                  IN /\ emit' = emits
                     /\ last' = Call(op, tab_id, CommandResult(value, emits))
    /\ UNCHANGED <<browsers, instances, pushed, discarded, trip,
                   poisoned, owner, th, committed>>

\* a command: the checks in order, then the emits, then Ok(value)
command(op, tab_id, checks, topics, value) ==
    /\ known' = (tab_id \in DOMAIN browsers \cup DOMAIN instances)
    /\ LET e == FirstError(checks)
       IN IF e # None
          THEN /\ last' = Call(op, tab_id, Err(e[1]))
               /\ emit' = <<>>
          ELSE \E delivered \in BOOLEAN :
                  LET emits == [i \in 1..Len(topics) |->
                                   Emitted(topics[i], tab_id, delivered)]
                  IN /\ emit' = emits
                     /\ last' = Call(op, tab_id, CommandResult(value, emits))
    /\ UNCHANGED <<browsers, instances, pushed, discarded, trip,
                   poisoned, owner, th, committed>>

TabIdEmpty(tab_id) == <<tab_id = "", "tab_id cannot be empty">>

NotPositive(width, height) ==
    <<width <= 0 \/ height <= 0, "Width and height must be positive">>

create_cef_browser(tab_id, url, x, y, width, height) ==
    command("create_cef_browser", tab_id,
            << <<url = "", "URL cannot be empty">>, TabIdEmpty(tab_id),
               NotPositive(width, height) >>,
            <<"cef:browser-created">>, None)

navigate_cef(tab_id, url) ==
    command("navigate_cef", tab_id,
            << TabIdEmpty(tab_id), <<url = "", "URL cannot be empty">> >>,
            <<"cef:navigation-started">>, None)

close_cef_browser(tab_id) ==
    command("close_cef_browser", tab_id, << TabIdEmpty(tab_id) >>,
            <<"cef:browser-closed">>, None)

cef_go_back(tab_id) ==
    command("cef_go_back", tab_id, << TabIdEmpty(tab_id) >>,
            <<"cef:navigation-back">>, None)

cef_go_forward(tab_id) ==
    command("cef_go_forward", tab_id, << TabIdEmpty(tab_id) >>,
            <<"cef:navigation-forward">>, None)

cef_reload(tab_id) ==
    command("cef_reload", tab_id, << TabIdEmpty(tab_id) >>,
            <<"cef:page-reload">>, None)

cef_stop(tab_id) ==
    command("cef_stop", tab_id, << TabIdEmpty(tab_id) >>,
            <<"cef:page-stop">>, None)

cef_execute_js(tab_id, script) ==
    command("cef_execute_js", tab_id,
            << TabIdEmpty(tab_id),
               <<script = "", "script cannot be empty">> >>,
            <<>>, Some("null"))

\* returns a PageContent whose fields are all empty
cef_get_page_content(tab_id) ==
    command("cef_get_page_content", tab_id, << TabIdEmpty(tab_id) >>,
            <<>>, Some(""))

cef_get_selection(tab_id) ==
    command("cef_get_selection", tab_id, << TabIdEmpty(tab_id) >>,
            <<>>, Some(""))

cef_on_url_change(tab_id, url) ==
    command("cef_on_url_change", tab_id,
            << TabIdEmpty(tab_id), <<url = "", "url cannot be empty">> >>,
            <<"cef:url-changed">>, None)

cef_on_title_change(tab_id, title) ==
    command("cef_on_title_change", tab_id, << TabIdEmpty(tab_id) >>,
            <<"cef:title-changed">>, None)

cef_on_loading_state_change(tab_id, is_loading) ==
    command("cef_on_loading_state_change", tab_id, << TabIdEmpty(tab_id) >>,
            <<"cef:loading-state-changed">>, None)

cef_switch_tab(tab_id) ==
    command("cef_switch_tab", tab_id, << TabIdEmpty(tab_id) >>,
            <<"cef:tab-switched">>, None)

cef_update_bounds(tab_id, x, y, width, height) ==
    command("cef_update_bounds", tab_id,
            << TabIdEmpty(tab_id), NotPositive(width, height) >>,
            <<"cef:bounds-updated">>, None)

\* a call of any command of the surface with these arguments
cef_command(tab_id, text, flag, r) ==
    \/ create_cef_browser(tab_id, text, r.x, r.y, r.width, r.height)
    \/ navigate_cef(tab_id, text)
    \/ close_cef_browser(tab_id)
    \/ cef_go_back(tab_id)
    \/ cef_go_forward(tab_id)
    \/ cef_reload(tab_id)
    \/ cef_stop(tab_id)
    \/ cef_execute_js(tab_id, text)
    \/ cef_get_page_content(tab_id)
    \/ cef_get_selection(tab_id)
    \/ cef_on_url_change(tab_id, text)
    \/ cef_on_title_change(tab_id, text)
    \/ cef_on_loading_state_change(tab_id, flag)
    \/ cef_switch_tab(tab_id)
    \/ cef_update_bounds(tab_id, r.x, r.y, r.width, r.height)

\* ----------------------------------------------------- specification
Init ==
    /\ browsers = EmptyMap
    /\ instances = EmptyMap
    /\ last = Call("new", "", Ok(None))
    /\ known = FALSE
    /\ pushed = [t \in Tabs |-> 0]
    /\ discarded = [t \in Tabs |-> {}]
    /\ trip = [t \in Tabs |-> NoTrip]
    /\ emit = <<>>
    /\ poisoned = {}
    /\ owner = [m \in Managers |-> NoThread]
    /\ th = [t \in Threads |-> Resting]
    /\ committed = [m \in Managers |-> EmptyMap]

Next ==
    \/ \E t \in Tabs, u \in Urls : register_browser(t, u)
    \/ \E t \in Tabs : unregister_browser(t)
    \/ \E t \in Tabs, u \in Urls : on_url_change(t, u)
    \/ \E t \in Tabs, ti \in Titles : on_title_change(t, ti)
    \/ \E t \in Tabs, l \in BOOLEAN : on_loading_state_change(t, l)
    \/ \E t \in Tabs : on_go_back(t)
    \/ \E t \in Tabs : on_go_forward(t)

Spec == Init /\ [][Next]_vars

NextPool ==
    \/ \E t \in PoolTabs, r \in Rects :
          register_instance(t, r.x, r.y, r.width, r.height)
    \/ \E t \in PoolTabs : unregister_instance(t)
    \/ \E t \in PoolTabs : show_instance(t)
    \/ \E t \in PoolTabs : hide_instance(t)
    \/ \E t \in PoolTabs, r \in Rects :
          update_instance_bounds(t, r.x, r.y, r.width, r.height)

SpecPool == Init /\ [][NextPool]_vars

\* Arguments the command surface rejects (empty tab_id, empty url, width or
\* height <= 0), passed to the managers directly.
InvalidTabs == {"", "tab-1"}

InvalidUrls == {"", "https://a.test"}

InvalidRects == Rects \cup {[x |-> 0, y |-> 0, width |-> 0, height |-> 600],
                            [x |-> 0, y |-> 0, width |-> 800, height |-> -1]}

NextInvalid ==
    \/ \E t \in InvalidTabs, u \in InvalidUrls : register_browser(t, u)
    \/ \E t \in InvalidTabs, r \in InvalidRects :
          register_instance(t, r.x, r.y, r.width, r.height)
    \/ \E t \in InvalidTabs, r \in InvalidRects :
          update_instance_bounds(t, r.x, r.y, r.width, r.height)

SpecInvalid == Init /\ [][NextInvalid]_vars

\* The command surface next to the managers: commands with valid and
\* invalid arguments, and manager methods on one tab.
CmdRects == {[x |-> 0, y |-> 0, width |-> 800, height |-> 600],
             [x |-> -100, y |-> 100, width |-> 800, height |-> 600],
             [x |-> 100, y |-> -100, width |-> 800, height |-> 600],
             [x |-> 0, y |-> 0, width |-> 0, height |-> 600]}

CmdTab == "tab-1"

CmdUrl == "https://a.test"

NextCmd ==
    \/ \E t \in InvalidTabs, u \in InvalidUrls, r \in CmdRects :
          create_cef_browser(t, u, r.x, r.y, r.width, r.height)
    \/ \E t \in InvalidTabs, u \in InvalidUrls : navigate_cef(t, u)
    \/ \E t \in InvalidTabs : close_cef_browser(t)
    \/ \E t \in InvalidTabs : cef_go_back(t)
    \/ \E t \in InvalidTabs : cef_go_forward(t)
    \/ \E t \in InvalidTabs : cef_reload(t)
    \/ \E t \in InvalidTabs : cef_stop(t)
    \/ \E t \in InvalidTabs, u \in InvalidUrls : cef_execute_js(t, u)
    \/ \E t \in InvalidTabs : cef_get_page_content(t)
    \/ \E t \in InvalidTabs : cef_get_selection(t)
    \/ \E t \in InvalidTabs, u \in InvalidUrls : cef_on_url_change(t, u)
    \/ \E t \in InvalidTabs, u \in InvalidUrls : cef_on_title_change(t, u)
    \/ \E t \in InvalidTabs, l \in BOOLEAN : cef_on_loading_state_change(t, l)
    \/ \E t \in InvalidTabs : cef_switch_tab(t)
    \/ \E t \in InvalidTabs, r \in CmdRects :
          cef_update_bounds(t, r.x, r.y, r.width, r.height)
    \/ register_browser(CmdTab, CmdUrl)
    \/ on_url_change(CmdTab, CmdUrl)
    \/ on_go_back(CmdTab)
    \/ register_instance(CmdTab, 0, 0, 800, 600)
    \/ show_instance(CmdTab)
    \/ \E r \in Rects :
          update_instance_bounds(CmdTab, r.x, r.y, r.width, r.height)

SpecCmd == Init /\ [][NextCmd]_vars

\* The browser manager with update_browser, which stores a CefBrowserInfo as
\* given: one with an empty history makes history.len() - 1 underflow in
\* on_url_change and on_go_forward.
UpdateInfos ==
    {[tab_id |-> CmdTab, url |-> "", title |-> "", is_loading |-> FALSE,
      can_go_back |-> FALSE, can_go_forward |-> FALSE,
      history |-> <<>>, history_index |-> 0],
     NewBrowserInfo(CmdTab, CmdUrl, 0)}

NextPoison ==
    \/ register_browser(CmdTab, CmdUrl)
    \/ unregister_browser(CmdTab)
    \/ \E i \in UpdateInfos : update_browser(CmdTab, i)
    \/ get_browser_call(CmdTab)
    \/ on_url_change(CmdTab, CmdUrl)
    \/ \E ti \in Titles : on_title_change(CmdTab, ti)
    \/ \E l \in BOOLEAN : on_loading_state_change(CmdTab, l)
    \/ on_go_back(CmdTab)
    \/ /\ CmdTab \in DOMAIN browsers => browsers[CmdTab].history_index < MaxPush
       /\ on_go_forward(CmdTab)
    \/ show_instance(CmdTab)
    \/ get_visible_instance_count_call

SpecPoison == Init /\ [][NextPoison]_vars

\* Two threads calling the pool concurrently.
ConcRect == [x |-> 0, y |-> 0, width |-> 800, height |-> 600]

NextPoolConc ==
    \/ \E t \in Threads, k \in Tabs : call(t, "register_instance", k, ConcRect)
    \/ \E t \in Threads, k \in Tabs : call(t, "show_instance", k, <<>>)
    \/ \E t \in Threads : call(t, "get_visible_instance_count", "", <<>>)
    \/ \E t \in Threads : lock(t)
    \/ \E t \in Threads : pool_statement(t)
    \/ \E t \in Threads : unlock(t)

SpecPoolConc == Init /\ [][NextPoolConc]_vars

\* The UI thread (registration, back, forward) and the engine's callback
\* thread (url, title and loading-state changes) calling the browser manager
\* concurrently; both read the state.
NextNavConc ==
    \/ \E k \in Tabs : call("ui", "register_browser", k, CmdUrl)
    \/ \E k \in Tabs : call("ui", "on_go_back", k, <<>>)
    \/ \E k \in Tabs : call("ui", "on_go_forward", k, <<>>)
    \/ \E k \in Tabs : call("engine", "on_url_change", k, CmdUrl)
    \/ \E ti \in Titles : call("engine", "on_title_change", CmdTab, ti)
    \/ call("engine", "on_loading_state_change", CmdTab, FALSE)
    \/ \E t \in Threads : call(t, "get_browser", CmdTab, <<>>)
    \/ \E t \in Threads : lock(t)
    \/ \E t \in Threads : browser_statement(t)
    \/ \E t \in Threads : unlock(t)

SpecNavConc == Init /\ [][NextNavConc]_vars

\* Callers of both managers, under fair scheduling: a thread inside a
\* method keeps running, and a thread waiting for a Mutex that is released
\* again and again eventually gets it.
NextLive ==
    \/ \E t \in Threads : call(t, "register_browser", CmdTab, CmdUrl)
    \/ \E t \in Threads : call(t, "on_url_change", CmdTab, CmdUrl)
    \/ \E t \in Threads : call(t, "on_go_back", CmdTab, <<>>)
    \/ \E t \in Threads : call(t, "register_instance", CmdTab, ConcRect)
    \/ \E t \in Threads : call(t, "show_instance", CmdTab, <<>>)
    \/ \E t \in Threads : lock(t)
    \/ \E t \in Threads : browser_statement(t)
    \/ \E t \in Threads : pool_statement(t)
    \/ \E t \in Threads : unlock(t)

Fairness ==
    \A t \in Threads :
       /\ SF_vars(lock(t))
       /\ WF_vars(browser_statement(t))
       /\ WF_vars(pool_statement(t))
       /\ WF_vars(unlock(t))

SpecLive == Init /\ [][NextLive]_vars /\ Fairness

\* One tab whose pages report different titles: the title callbacks of the
\* engine arrive between url changes and back / forward navigation.
PageTitles == {"Example Page", "Other Page"}

NextTitle ==
    \/ \E u \in Urls : register_browser(CmdTab, u)
    \/ \E u \in Urls : on_url_change(CmdTab, u)
    \/ \E ti \in PageTitles : on_title_change(CmdTab, ti)
    \/ on_go_back(CmdTab)
    \/ on_go_forward(CmdTab)

SpecTitle == Init /\ [][NextTitle]_vars

\* ------------------------------------------------------------ claims
Registered_(t) == t \in DOMAIN browsers

\* zero-based read of the history of a browser
At(b, i) == b.history[i + 1]

LastIndex(b) == Len(b.history) - 1

\* C1: every registered tab has a non-empty history and a cursor with
\* 0 <= history_index < history.len().
C1_HistoryIndexInBounds ==
    \A t \in DOMAIN browsers :
        /\ Len(browsers[t].history) > 0
        /\ browsers[t].history_index >= 0
        /\ browsers[t].history_index < Len(browsers[t].history)

\* C1 witness: a tab with three entries whose cursor a go-back has moved into
\* the middle of its history.
C1_Witness ==
    /\ \E t \in DOMAIN browsers :
          /\ Len(browsers[t].history) = 3
          /\ browsers[t].history_index = 1
          /\ last.op = "on_go_back"

\* C2: for every registered tab, can_go_back = (history_index > 0) and
\* can_go_forward = (history_index < history.len() - 1).
C2_NavFlagsMatchCursor ==
    \A t \in DOMAIN browsers :
        LET b == browsers[t]
        IN /\ b.can_go_back = (b.history_index > 0)
           /\ b.can_go_forward = (b.history_index < Len(b.history) - 1)

\* C2 witness: a go-back has just set can_go_forward without recomputing it,
\* on a tab whose cursor is in the middle (both flags true).
C2_Witness ==
    /\ last.op = "on_go_back"
    /\ last.tab \in DOMAIN browsers
    /\ browsers[last.tab].can_go_back
    /\ browsers[last.tab].can_go_forward
    /\ browsers[last.tab].history_index = 1

\* C3: for every registered tab, url = history[history_index].url.
C3_UrlIsEntryAtCursor ==
    \A t \in DOMAIN browsers :
        LET b == browsers[t]
        IN /\ Get(b.history, b.history_index) # None
           /\ b.url = At(b, b.history_index).url

\* C3 witness: a go-forward has just moved the cursor onto an entry whose url
\* differs from that of the entry it left.
C3_Witness ==
    /\ last.op = "on_go_forward"
    /\ last.tab \in DOMAIN browsers
    /\ LET b == browsers[last.tab]
       IN /\ b.history_index > 0
          /\ At(b, b.history_index).url # At(b, b.history_index - 1).url
          /\ last.ret = Ok(Some(b.url))

\* C4: on a registered tab with cursor i, on_url_change(tab, url) leaves
\* history.len() = i + 2, history_index = i + 1, entries 0..i unchanged, the
\* new entry {url, ""} last, url = url, can_go_back, not can_go_forward;
\* whatever url is (no de-duplication).
C4_Post(b, b2, url) ==
    LET i == b.history_index
    IN /\ Len(b2.history) = i + 2
       /\ b2.history_index = i + 1
       /\ SubSeq(b2.history, 1, i + 1) = SubSeq(b.history, 1, i + 1)
       /\ At(b2, i + 1).url = url
       /\ At(b2, i + 1).title = ""
       /\ b2.url = url
       /\ b2.can_go_back = TRUE
       /\ b2.can_go_forward = FALSE

C4_UrlChangeTruncatesAndAppends ==
    [][\A t \in Tabs, u \in Urls :
          (Registered_(t) /\ on_url_change(t, u))
              => C4_Post(browsers[t], browsers'[t], u)]_vars

\* C4 witness: an on_url_change has just discarded forward entries and pushed
\* a url equal to the one the cursor was on.
C4_Witness ==
    /\ last.op = "on_url_change"
    /\ last.tab \in DOMAIN browsers
    /\ discarded[last.tab] # {}
    /\ LET b == browsers[last.tab]
       IN /\ Len(b.history) = 2
          /\ At(b, 0).url = At(b, 1).url

\* C5: after an on_url_change on a tab, an immediately following
\* on_go_forward on that tab returns no url, and the cursor of a tab is never
\* on an entry that was after the cursor when an on_url_change arrived.
C5_CursorOffDiscarded ==
    \A t \in DOMAIN browsers :
        At(browsers[t], browsers[t].history_index).seq \notin discarded[t]

C5_ForwardHistoryLost ==
    [][/\ \A t \in Tabs :
             (/\ last.op = "on_url_change"
              /\ last.tab = t
              /\ Registered_(t)
              /\ on_go_forward(t)) => last'.ret = Ok(None)
       /\ C5_CursorOffDiscarded']_vars

\* C5 witness: forward entries of a tab were discarded, then the cursor went
\* back and forward again up to the last entry.
C5_Witness ==
    /\ last.op = "on_go_forward"
    /\ last.tab \in DOMAIN browsers
    /\ discarded[last.tab] # {}
    /\ last.ret # Ok(None)
    /\ browsers[last.tab].history_index = LastIndex(browsers[last.tab])

\* C6: from the cursor at the last index n of [u0..un], k go-backs then k
\* go-forwards (no other call on the tab in between) restore the whole state
\* of the tab; the j-th go-back returns u(n-j), the j-th go-forward u(n-k+j).
C6_BackForwardInverse ==
    \A t \in Tabs :
        trip[t].active =>
            /\ Registered_(t)
            /\ LET o == trip[t].orig[1]
                   n == LastIndex(o)
                   k == trip[t].backs
                   j == trip[t].fwds
               IN /\ k > 0 /\ k <= n /\ j <= k
                  /\ (j = k) => (browsers[t] = o)
                  /\ (last.tab = t /\ last.op = "on_go_back")
                        => (j = 0 /\ last.ret = Ok(Some(At(o, n - k).url)))
                  /\ (last.tab = t /\ last.op = "on_go_forward")
                        => (j > 0 /\ last.ret = Ok(Some(At(o, n - k + j).url)))

\* C6 witness: a round trip of two go-backs and two go-forwards is complete.
C6_Witness ==
    \E t \in Tabs :
        /\ trip[t].active
        /\ trip[t].backs = 2
        /\ trip[t].fwds = 2
        /\ last = Call("on_go_forward", t, Ok(Some(browsers[t].url)))

\* C7: on_go_back at history_index = 0 and on_go_forward at the last index
\* return Ok(None) and leave every field of the tab unchanged.
C7_BoundaryNoOps ==
    [][\A t \in Tabs :
          /\ (/\ Registered_(t)
              /\ browsers[t].history_index = 0
              /\ on_go_back(t))
                 => (last'.ret = Ok(None) /\ browsers'[t] = browsers[t])
          /\ (/\ Registered_(t)
              /\ browsers[t].history_index = LastIndex(browsers[t])
              /\ on_go_forward(t))
                 => (last'.ret = Ok(None) /\ browsers'[t] = browsers[t])]_vars

\* C7 witness: a go-back has just been refused at index 0 of a tab that has
\* an entry to go forward to.
C7_Witness ==
    /\ last = Call("on_go_back", last.tab, Ok(None))
    /\ last.tab \in DOMAIN browsers
    /\ browsers[last.tab].history_index = 0
    /\ Len(browsers[last.tab].history) >= 2

\* C8: on_go_back with history_index > 0 decrements the cursor by one,
\* on_go_forward with history_index < last index increments it by one; the
\* call returns the url of the entry now at the cursor, which becomes url,
\* and the history is unchanged.
C8_Moved(b, b2, ret, delta) ==
    /\ b2.history_index = b.history_index + delta
    /\ b2.history = b.history
    /\ ret = Ok(Some(At(b, b.history_index + delta).url))
    /\ b2.url = At(b, b.history_index + delta).url

C8_BackForwardMoveByOne ==
    [][\A t \in Tabs :
          /\ (/\ Registered_(t)
              /\ browsers[t].history_index > 0
              /\ on_go_back(t))
                 => C8_Moved(browsers[t], browsers'[t], last'.ret, -1)
          /\ (/\ Registered_(t)
              /\ browsers[t].history_index < LastIndex(browsers[t])
              /\ on_go_forward(t))
                 => C8_Moved(browsers[t], browsers'[t], last'.ret, 1)]_vars

\* C8 witness: a go-back has just moved the cursor from the last of three
\* entries to the middle one, whose url differs from the one it left.
C8_Witness ==
    /\ last.op = "on_go_back"
    /\ last.tab \in DOMAIN browsers
    /\ LET b == browsers[last.tab]
       IN /\ Len(b.history) = 3
          /\ b.history_index = 1
          /\ last.ret = Ok(Some(At(b, 1).url))
          /\ At(b, 1).url # At(b, 2).url

\* C9: in the state right after show_instance(id), at most one instance is
\* visible; if id is registered, it is the one.
C9_ShowIsExclusive ==
    last.op = "show_instance" =>
        /\ get_visible_instance_count(instances) <= 1
        /\ last.tab \in DOMAIN instances =>
              /\ get_visible_instance_count(instances) = 1
              /\ instances[last.tab].is_visible

\* C9 witness: show_instance has just returned on a pool of three instances.
C9_Witness ==
    /\ last.op = "show_instance"
    /\ last.tab \in DOMAIN instances
    /\ get_instance_count(instances) = 3
    /\ get_visible_instance_count(instances) = 1

\* C10: register_instance inserts the record with is_visible = TRUE and
\* changes no other record.
C10_RegisterKeepsOthers ==
    [][\A t \in PoolTabs, r \in Rects :
          register_instance(t, r.x, r.y, r.width, r.height) =>
              /\ t \in DOMAIN instances'
              /\ instances'[t].is_visible
              /\ \A o \in (DOMAIN instances) \ {t} :
                    o \in DOMAIN instances' /\ instances'[o] = instances[o]]_vars

\* C10 witness: register_instance has just returned and two or more
\* instances are visible.
C10_Witness ==
    /\ last.op = "register_instance"
    /\ get_visible_instance_count(instances) >= 2
    /\ \E o \in DOMAIN instances : o # last.tab /\ instances[o].is_visible

\* a call of a CefBrowserManager method keyed by tab a
NavOpOn(a) ==
    \/ \E u \in Urls : register_browser(a, u)
    \/ unregister_browser(a)
    \/ \E u \in Urls : on_url_change(a, u)
    \/ \E ti \in Titles : on_title_change(a, ti)
    \/ \E l \in BOOLEAN : on_loading_state_change(a, l)
    \/ on_go_back(a)
    \/ on_go_forward(a)

\* the entry of key k is the same in maps m and m2 (absent in both, or equal)
SameEntry(m, m2, k) ==
    /\ (k \in DOMAIN m) = (k \in DOMAIN m2)
    /\ k \in DOMAIN m => m2[k] = m[k]

\* C11: no CefBrowserManager method keyed by tab A changes the state or the
\* registration of another tab B.
C11_NavTabIndependence ==
    [][\A a \in Tabs : \A b \in Tabs \ {a} :
          NavOpOn(a) => SameEntry(browsers, browsers', b)]_vars

\* C11 witness: both tabs are registered and a call keyed by one of them has
\* just changed its history.
C11_Witness ==
    /\ DOMAIN browsers = Tabs
    /\ last.op = "on_url_change"
    /\ known
    /\ Len(browsers[last.tab].history) = 2
    /\ \E b \in Tabs \ {last.tab} : browsers[b].url # browsers[last.tab].url

\* a call of a CefInstancePool method keyed by tab a
PoolOpOn(a) ==
    \/ \E r \in Rects : register_instance(a, r.x, r.y, r.width, r.height)
    \/ unregister_instance(a)
    \/ show_instance(a)
    \/ hide_instance(a)
    \/ \E r \in Rects : update_instance_bounds(a, r.x, r.y, r.width, r.height)

\* C12 as claimed: no CefInstancePool method keyed by tab A changes any field
\* of the record of another tab B.
C12_PoolTabIndependence ==
    [][\A a \in PoolTabs : \A b \in PoolTabs \ {a} :
          PoolOpOn(a) => SameEntry(instances, instances', b)]_vars

\* C12 amended: a CefInstancePool method keyed by tab A leaves the record of
\* another tab B registered with its x, y, width, height; its is_visible is
\* unchanged too, except that show_instance(A) sets it to false.
C12_PoolTabIndependenceButShow ==
    [][\A a \in PoolTabs : \A b \in PoolTabs \ {a} :
          /\ (PoolOpOn(a) /\ ~show_instance(a))
                => SameEntry(instances, instances', b)
          /\ (show_instance(a) /\ b \in DOMAIN instances)
                => /\ b \in DOMAIN instances'
                   /\ instances'[b] = [instances[b] EXCEPT !.is_visible = FALSE]
          /\ (show_instance(a) /\ b \notin DOMAIN instances)
                => b \notin DOMAIN instances']_vars

\* C12 witness: show_instance has just hidden the other instances of a pool
\* of three, whose bounds differ from those of the target.
C12_Witness ==
    /\ last.op = "show_instance"
    /\ known
    /\ DOMAIN instances = PoolTabs
    /\ \A b \in PoolTabs \ {last.tab} :
          /\ ~instances[b].is_visible
          /\ instances[b].x # instances[last.tab].x

\* C13 as claimed: a call keyed by a tab id that is not registered fails
\* (on_url_change, on_title_change, on_loading_state_change, on_go_back,
\* on_go_forward, show_instance, hide_instance).
C13_UnknownTabFails ==
    (/\ last.op \in {"on_url_change", "on_title_change",
                     "on_loading_state_change", "on_go_back", "on_go_forward",
                     "show_instance", "hide_instance"}
     /\ ~known) => last.ret.ok = FALSE

\* C14: show_instance(id) with id not registered hides every record and adds
\* no record for id.
C14_ShowAbsentHidesAll ==
    [][\A a \in PoolTabs :
          (show_instance(a) /\ a \notin DOMAIN instances) =>
              /\ DOMAIN instances' = DOMAIN instances
              /\ get_visible_instance_count(instances') = 0
              /\ \A k \in DOMAIN instances :
                    instances'[k] = [instances[k] EXCEPT !.is_visible = FALSE]]_vars

\* C14 witness: show_instance has just returned for an id that is not in a
\* pool of two instances, and none is visible.
C14_Witness ==
    /\ last.op = "show_instance"
    /\ ~known
    /\ last.tab \notin DOMAIN instances
    /\ get_instance_count(instances) = 2
    /\ get_visible_instance_count(instances) = 0

\* C15 as claimed: register_browser, register_instance and
\* update_instance_bounds called with an empty tab id, an empty url, or a
\* width or height <= 0 return an error and change no state.
C15_InvalidArgumentRejected ==
    [][/\ \A t \in InvalidTabs, u \in InvalidUrls :
             (register_browser(t, u) /\ (t = "" \/ u = ""))
                 => (last'.ret.ok = FALSE /\ browsers' = browsers)
       /\ \A t \in InvalidTabs, r \in InvalidRects :
             (/\ \/ register_instance(t, r.x, r.y, r.width, r.height)
                 \/ update_instance_bounds(t, r.x, r.y, r.width, r.height)
              /\ (t = "" \/ r.width <= 0 \/ r.height <= 0))
                 => (last'.ret.ok = FALSE /\ instances' = instances)]_vars

\* C16: register_browser(tab_id, url) on an unregistered tab_id creates
\* history = [{url, ""}], history_index = 0, url = url, title = "",
\* is_loading = true, can_go_back = false, can_go_forward = false.
SeedState(b, tab_id, url) ==
    /\ Len(b.history) = 1
    /\ b.history[1].url = url
    /\ b.history[1].title = ""
    /\ b.history_index = 0
    /\ b.tab_id = tab_id
    /\ b.url = url
    /\ b.title = ""
    /\ b.is_loading = TRUE
    /\ b.can_go_back = FALSE
    /\ b.can_go_forward = FALSE

C16_RegisterSeedsState ==
    [][\A t \in Tabs, u \in Urls :
          (register_browser(t, u) /\ t \notin DOMAIN browsers) =>
              /\ last'.ret = Ok(None)
              /\ t \in DOMAIN browsers'
              /\ SeedState(browsers'[t], t, u)]_vars

\* C16 witness: a tab has just been registered that was not registered
\* before, next to a tab that already was.
C16_Witness ==
    /\ last.op = "register_browser"
    /\ ~known
    /\ DOMAIN browsers = Tabs
    /\ SeedState(browsers[last.tab], last.tab, browsers[last.tab].url)

\* C17: register_browser(tab_id, url) on a registered tab_id succeeds and
\* replaces the whole state of the tab by the seed state for url; the number
\* of registered tabs is unchanged.
C17_RegisterReplaces ==
    [][\A t \in Tabs, u \in Urls :
          (register_browser(t, u) /\ t \in DOMAIN browsers) =>
              /\ last'.ret = Ok(None)
              /\ DOMAIN browsers' = DOMAIN browsers
              /\ SeedState(browsers'[t], t, u)]_vars

\* C17 witness: a registered tab has just been registered again and is in
\* the seed state.
C17_Witness ==
    /\ last.op = "register_browser"
    /\ known
    /\ last.tab \in DOMAIN browsers
    /\ Len(browsers[last.tab].history) = 1
    /\ browsers[last.tab].is_loading

\* C18: unregister_browser(tab_id) succeeds and leaves get_browser(tab_id)
\* = None; on an absent tab_id it changes no state; a second unregister
\* changes nothing more; a later register starts from the seed state.
C18_UnregisterRemoves ==
    [][\A t \in Tabs :
          /\ unregister_browser(t) =>
                /\ last'.ret = Ok(None)
                /\ get_browser(browsers', t) = None
                /\ DOMAIN browsers' = (DOMAIN browsers) \ {t}
                /\ Remove(browsers', t) = browsers'
                /\ t \notin DOMAIN browsers => browsers' = browsers
          /\ \A u \in Urls :
                (register_browser(t, u) /\ last = Call("unregister_browser", t, Ok(None)))
                    => SeedState(browsers'[t], t, u)]_vars

\* C18 witness: a registered tab has just been unregistered and is absent,
\* the other tab being still registered.
C18_Witness ==
    /\ last.op = "unregister_browser"
    /\ known
    /\ get_browser(browsers, last.tab) = None
    /\ browsers # EmptyMap

\* C19: on_title_change(tab, title) on a registered tab sets title and the
\* title of the entry at history_index to title and changes nothing else.
C19_TitleChangeBackfills ==
    [][\A t \in Tabs, ti \in Titles :
          (on_title_change(t, ti) /\ t \in DOMAIN browsers) =>
              LET b == browsers[t]
                  b2 == browsers'[t]
              IN /\ b2.title = ti
                 /\ Len(b2.history) = Len(b.history)
                 /\ \A i \in 1..Len(b.history) :
                       /\ b2.history[i].url = b.history[i].url
                       /\ b2.history[i].title =
                             IF i = b.history_index + 1 THEN ti
                             ELSE b.history[i].title
                 /\ b2.history_index = b.history_index
                 /\ b2.url = b.url
                 /\ b2.is_loading = b.is_loading
                 /\ b2.can_go_back = b.can_go_back
                 /\ b2.can_go_forward = b.can_go_forward]_vars

\* C19 witness: a title has just been written to the entry at the cursor of
\* a tab that has another entry, whose title is still empty.
C19_Witness ==
    /\ last.op = "on_title_change"
    /\ known
    /\ LET b == browsers[last.tab]
       IN /\ b.title # ""
          /\ At(b, b.history_index).title = b.title
          /\ \E i \in 0..LastIndex(b) : At(b, i).title = ""

\* C20: on_loading_state_change(tab, b) on a registered tab sets is_loading
\* to b and changes no other field.
C20_LoadingStateVerbatim ==
    [][\A t \in Tabs, l \in BOOLEAN :
          (on_loading_state_change(t, l) /\ t \in DOMAIN browsers) =>
              /\ browsers'[t].is_loading = l
              /\ [browsers'[t] EXCEPT !.is_loading = browsers[t].is_loading]
                    = browsers[t]]_vars

\* C20 witness: a loading event has just cleared is_loading on a tab whose
\* history has two entries.
C20_Witness ==
    /\ last.op = "on_loading_state_change"
    /\ known
    /\ ~browsers[last.tab].is_loading
    /\ Len(browsers[last.tab].history) = 2

\* ---- C21: hide_instance on a registered id clears is_visible of that
\* record only: its bounds and every other record are unchanged, so the
\* visible count drops by one if the id was visible and is unchanged if not.
C21_HideOnlyTarget ==
    [][\A t \in PoolTabs :
          (hide_instance(t) /\ t \in DOMAIN instances) =>
             /\ DOMAIN instances' = DOMAIN instances
             /\ instances'[t] = [instances[t] EXCEPT !.is_visible = FALSE]
             /\ \A k \in DOMAIN instances \ {t} : instances'[k] = instances[k]
             /\ get_visible_instance_count(instances') =
                   get_visible_instance_count(instances)
                      - (IF instances[t].is_visible THEN 1 ELSE 0)]_vars

\* hide_instance has acted on a registered id that was already hidden, next
\* to a visible record
C21_Witness ==
    /\ last.op = "hide_instance"
    /\ known
    /\ last.tab \in DOMAIN instances
    /\ ~instances[last.tab].is_visible
    /\ get_visible_instance_count(instances) = 1
    /\ get_instance_count(instances) = 3

\* ---- C22: unregister_instance removes the record of its id and nothing
\* else: every remaining record keeps its visibility and bounds, so removing
\* the only visible instance leaves no instance visible.
C22_UnregisterOnlyRemoves ==
    [][\A t \in PoolTabs :
          unregister_instance(t) =>
             /\ DOMAIN instances' = DOMAIN instances \ {t}
             /\ \A k \in DOMAIN instances' : instances'[k] = instances[k]
             /\ (/\ t \in DOMAIN instances
                 /\ instances[t].is_visible
                 /\ get_visible_instance_count(instances) = 1)
                => get_visible_instance_count(instances') = 0]_vars

\* the only visible instance has been unregistered and others remain
C22_Witness ==
    /\ last.op = "unregister_instance"
    /\ known
    /\ last.tab \notin DOMAIN instances
    /\ get_instance_count(instances) = 2
    /\ get_visible_instance_count(instances) = 0

\* ---- C23: update_instance_bounds on a registered id overwrites x, y,
\* width and height of that record and keeps its is_visible; on an id that
\* is not registered it returns Ok, creates no record and changes nothing.
C23_UpdateBoundsOverwritesOrSkips ==
    [][\A t \in PoolTabs, r \in Rects :
          update_instance_bounds(t, r.x, r.y, r.width, r.height) =>
             /\ last'.ret = Ok(None)
             /\ DOMAIN instances' = DOMAIN instances
             /\ \A k \in DOMAIN instances \ {t} : instances'[k] = instances[k]
             /\ t \in DOMAIN instances =>
                   instances'[t] = [tab_id |-> instances[t].tab_id,
                                    is_visible |-> instances[t].is_visible,
                                    x |-> r.x, y |-> r.y,
                                    width |-> r.width, height |-> r.height]
             /\ t \notin DOMAIN instances => instances' = instances]_vars

\* update_instance_bounds has returned Ok for an id that is not a key of a
\* pool holding other records
C23_Witness ==
    /\ last.op = "update_instance_bounds"
    /\ ~known
    /\ last.ret = Ok(None)
    /\ last.tab \notin DOMAIN instances
    /\ get_instance_count(instances) = 2

\* the event each state-changing operation is announced by
NotificationTopic ==
    [op \in {"on_url_change", "on_title_change", "on_loading_state_change",
             "on_go_back", "on_go_forward", "show_instance",
             "update_instance_bounds"} |->
        CASE op = "on_url_change" -> "cef:url-changed"
          [] op = "on_title_change" -> "cef:title-changed"
          [] op = "on_loading_state_change" -> "cef:loading-state-changed"
          [] op = "on_go_back" -> "cef:navigation-back"
          [] op = "on_go_forward" -> "cef:navigation-forward"
          [] op = "show_instance" -> "cef:tab-switched"
          [] op = "update_instance_bounds" -> "cef:bounds-updated"]

C27_ValidArgs(t, u, r) ==
    /\ t # ""
    /\ u # ""
    /\ r.x >= 0 /\ r.y >= 0
    /\ r.width > 0 /\ r.height > 0

\* ---- C27: notification delivery is best-effort: a command called with
\* valid arguments returns success whether its emit succeeds or fails, and
\* no call whose emit failed returns an error.
C27_EmitFailureNotSurfaced ==
    [][/\ \A t \in InvalidTabs, u \in InvalidUrls, l \in BOOLEAN,
             r \in CmdRects :
             (C27_ValidArgs(t, u, r) /\ cef_command(t, u, l, r))
                => last'.ret.ok
       /\ (\E i \in 1..Len(emit') : ~emit'[i].delivered) => last'.ret.ok]_vars

\* a command has returned Ok although its emit failed
C27_Witness ==
    /\ last.op = "cef_update_bounds"
    /\ last.ret = Ok(None)
    /\ Len(emit) = 1
    /\ emit[1].topic = "cef:bounds-updated"
    /\ ~emit[1].delivered

\* ---- C28: negative positions are rejected: create_cef_browser and
\* cef_update_bounds called with x < 0 or y < 0 return an error and emit no
\* notification, while x = 0 and y = 0 are accepted.
C28_NegativePositionRejected ==
    [][\A t \in InvalidTabs, u \in InvalidUrls, r \in CmdRects :
          (\/ create_cef_browser(t, u, r.x, r.y, r.width, r.height)
           \/ cef_update_bounds(t, r.x, r.y, r.width, r.height))
          => /\ (r.x < 0 \/ r.y < 0) => (~last'.ret.ok /\ emit' = <<>>)
             /\ (/\ r.x = 0 /\ r.y = 0
                 /\ t # "" /\ u # "" /\ r.width > 0 /\ r.height > 0)
                => last'.ret.ok]_vars

\* the methods of the CefBrowserManager
BrowserOps ==
    {"register_browser", "unregister_browser", "update_browser",
     "get_browser", "on_url_change", "on_title_change",
     "on_loading_state_change", "on_go_back", "on_go_forward"}

\* ---- C29: once the lock of the browser manager is poisoned, it stays
\* poisoned, every later call of one of its methods, reads included, returns
\* an error, and the map is not modified.
C29_PoisonedLockSurfaced ==
    [][("browsers" \in poisoned) =>
          /\ "browsers" \in poisoned'
          /\ browsers' = browsers
          /\ last'.op \in BrowserOps => ~last'.ret.ok]_vars

\* a read of the poisoned manager has returned the lock error
C29_Witness ==
    /\ "browsers" \in poisoned
    /\ last = Call("get_browser", CmdTab,
                   Err("Failed to lock browser manager"))
    /\ CmdTab \in DOMAIN browsers

\* a thread inside op, past its call
Running(t, op) == th[t].pc # "idle" /\ th[t].op = op

\* a thread holding the guard of its manager
Holding(t) == th[t].pc \in {"body", "unlock"}

\* ---- C24: a reader of the pool running concurrently with show_instance
\* sees the pool as it was before the call or as it is after it, never the
\* state in between where every record is hidden: while the reader holds the
\* lock the pool is the result of whole calls, the count it returns is the
\* count of that pool, and with the id registered and exactly one instance
\* visible before the call the count it returns is 1.
C24_ReaderSeesWholeShow ==
    \A t \in Threads :
       (Running(t, "get_visible_instance_count") /\ Holding(t)) =>
          /\ instances = committed["instances"]
          /\ th[t].pc = "unlock" =>
                th[t].ret = Some(get_visible_instance_count(
                                    committed["instances"]))
          /\ \A u \in Threads \ {t} :
                (/\ Running(u, "show_instance")
                 /\ th[u].tab \in DOMAIN committed["instances"]
                 /\ get_visible_instance_count(committed["instances"]) = 1
                 /\ th[t].pc = "unlock")
                => th[t].ret = Some(1)

\* show_instance has hidden every record and not yet shown its target,
\* which is registered, while a reader waits for the lock
C24_Witness ==
    \E t \in Threads, u \in Threads :
       /\ Running(u, "show_instance")
       /\ th[u].pc = "body"
       /\ th[u].tab \in DOMAIN instances
       /\ get_instance_count(instances) = 2
       /\ get_visible_instance_count(instances) = 0
       /\ get_visible_instance_count(committed["instances"]) = 1
       /\ Running(t, "get_visible_instance_count")
       /\ th[t].pc = "lock"

\* index bounds, flag formulas and url of a CefBrowserInfo
C25_Consistent(b) ==
    /\ Len(b.history) >= 1
    /\ b.history_index >= 0
    /\ b.history_index < Len(b.history)
    /\ b.can_go_back = (b.history_index > 0)
    /\ b.can_go_forward = (b.history_index < Len(b.history) - 1)
    /\ b.url = b.history[b.history_index + 1].url

\* ---- C25: under any interleaving of concurrent navigation calls each call
\* takes effect as a whole: every state get_browser returns satisfies the
\* index bounds, the flag formulas and url = history[history_index].url,
\* every call returns what it returns when the calls run one after another
\* in the order they took the lock, and whenever no call is under way the
\* map is the result of that sequential order.
C25_NavCallsAtomic ==
    /\ \A t \in Threads :
          th[t].pc = "unlock" =>
             /\ th[t].ret = th[t].want
             /\ (th[t].op = "get_browser" /\ th[t].ret # None) =>
                   C25_Consistent(th[t].ret[1])
    /\ \A t \in Threads :
          (Running(t, "get_browser") /\ Holding(t)) =>
             browsers = committed["browsers"]
    /\ owner["browsers"] = NoThread => browsers = committed["browsers"]

\* on_url_change has pushed the entry and not yet moved the cursor, so the
\* record breaks its invariants, while the other thread waits to read it
C25_Witness ==
    /\ Running("engine", "on_url_change")
    /\ th["engine"].pc = "body"
    /\ th["engine"].tab = CmdTab
    /\ CmdTab \in DOMAIN browsers
    /\ ~C25_Consistent(browsers[CmdTab])
    /\ Running("ui", "get_browser")
    /\ th["ui"].pc = "lock"

\* ---- C30: no deadlock and no unbounded blocking: with fair lock
\* acquisition every call that was made eventually returns, on every path
\* (unknown tab and boundary paths included).
C30_EveryCallReturns ==
    \A t \in Threads : (th[t].pc # "idle") ~> (th[t].pc = "idle")

\* a caller waits for the Mutex of the browser manager, held by a go-back
\* on a tab that is not registered, while nothing holds the pool's
C30_Witness ==
    \E t \in Threads, u \in Threads :
       /\ Running(t, "on_url_change")
       /\ th[t].pc = "lock"
       /\ Running(u, "on_go_back")
       /\ owner["browsers"] = u
       /\ th[u].tab \notin DOMAIN browsers
       /\ get_instance_count(instances) = 1

\* ---- C31: two concurrent calls show_instance(a) and show_instance(b),
\* a # b, both registered: whenever one of them returns, exactly one
\* instance is visible and it is the one that call showed, so after both
\* have returned the visible instance is that of the call that took the
\* lock last; no interleaving leaves both visible or both hidden.
C31_ConcurrentShowsLeaveOne ==
    [][\A t \in Threads :
          (/\ unlock(t)
           /\ th[t].op = "show_instance"
           /\ th[t].tab \in DOMAIN instances)
          => /\ get_visible_instance_count(instances') = 1
             /\ instances'[th[t].tab].is_visible]_vars

\* show_instance(b) has run its body and is about to return while
\* show_instance(a), a # b, waits for the lock; both are registered
C31_Witness ==
    \E t \in Threads, u \in Threads :
       /\ Running(t, "show_instance")
       /\ th[t].pc = "unlock"
       /\ Running(u, "show_instance")
       /\ th[u].pc = "lock"
       /\ th[t].tab # th[u].tab
       /\ {th[t].tab, th[u].tab} \subseteq DOMAIN instances
       /\ instances[th[t].tab].is_visible
       /\ ~instances[th[u].tab].is_visible

\* ---- C32: show_instance, hide_instance, unregister_instance and
\* update_instance_bounds never take the pool from at most one visible
\* instance to more than one; only register_instance raises the number of
\* visible instances, and it can make it 2.
C32_OnlyRegisterRaisesVisible ==
    [][\A t \in PoolTabs, r \in Rects :
          (/\ get_visible_instance_count(instances) <= 1
           /\ \/ show_instance(t)
              \/ hide_instance(t)
              \/ unregister_instance(t)
              \/ update_instance_bounds(t, r.x, r.y, r.width, r.height))
          => get_visible_instance_count(instances') <= 1]_vars

\* register_instance of a new id has made two instances visible in a pool
\* where a third one is hidden
C32_Witness ==
    /\ last.op = "register_instance"
    /\ ~known
    /\ get_instance_count(instances) = 3
    /\ get_visible_instance_count(instances) = 2

\* ---- C33: register_instance on an id that is already registered replaces
\* its record: the bounds are the new ones, is_visible is true again even
\* if the record was hidden, the number of records is unchanged and no other
\* record changes.
C33_ReRegisterReplaces ==
    [][\A t \in PoolTabs, r \in Rects :
          (/\ register_instance(t, r.x, r.y, r.width, r.height)
           /\ t \in DOMAIN instances)
          => /\ instances'[t] = [tab_id |-> t, is_visible |-> TRUE,
                                 x |-> r.x, y |-> r.y,
                                 width |-> r.width, height |-> r.height]
             /\ get_instance_count(instances') = get_instance_count(instances)
             /\ \A k \in DOMAIN instances \ {t} :
                   instances'[k] = instances[k]]_vars

\* an id already in the pool has been registered again, with bounds other
\* than (0, 0, 800, 600), next to a hidden record
C33_Witness ==
    /\ last.op = "register_instance"
    /\ known
    /\ instances[last.tab].is_visible
    /\ instances[last.tab].x = 100
    /\ get_instance_count(instances) = 2
    /\ get_visible_instance_count(instances) = 1

\* ---- C34: on_url_change, on_go_back and on_go_forward change neither
\* title nor is_loading of the tab: after a url change title is still the
\* previous one although the title of the new entry is empty, a go-back or
\* go-forward does not reload title from the entry at the cursor, and
\* is_loading of a tab changes only through register_browser and
\* on_loading_state_change.
C34_NavKeepsTitleAndLoading ==
    [][\A t \in Tabs :
          t \in DOMAIN browsers =>
             /\ \A u \in Urls :
                   on_url_change(t, u) =>
                      /\ browsers'[t].title = browsers[t].title
                      /\ browsers'[t].is_loading = browsers[t].is_loading
                      /\ At(browsers'[t], browsers'[t].history_index).title = ""
             /\ (on_go_back(t) \/ on_go_forward(t)) =>
                   /\ browsers'[t].title = browsers[t].title
                   /\ browsers'[t].is_loading = browsers[t].is_loading
             /\ (/\ t \in DOMAIN browsers'
                 /\ browsers'[t].is_loading # browsers[t].is_loading)
                => /\ last'.op \in {"register_browser",
                                    "on_loading_state_change"}
                   /\ last'.tab = t]_vars

\* a go-back has moved the cursor to an entry without a title and the
\* browser still has the title of the page it left
C34_Witness ==
    /\ last.op = "on_go_back"
    /\ known
    /\ last.ret.value # None
    /\ LET b == browsers[last.tab]
       IN /\ b.title # ""
          /\ At(b, b.history_index).title = ""
          /\ At(b, b.history_index + 1).title = b.title

\* the index of the entry that was at the cursor before the navigation
\* call recorded in `last`
C35_LeftIndex(b) ==
    IF last.op = "on_go_back" THEN b.history_index + 1
    ELSE b.history_index - 1

\* ---- C35: a title callback is attributed to the entry at the cursor at
\* the moment it is processed: when on_title_change(tab, T) is processed
\* right after an on_url_change or a go-back / go-forward that moved the
\* cursor, T is written to the entry now at history_index, overwriting the
\* title it had, and the entry of the page that was left keeps its title.
C35_TitleGoesToCursorEntry ==
    [][\A ti \in PageTitles :
          (/\ on_title_change(CmdTab, ti)
           /\ CmdTab \in DOMAIN browsers
           /\ last.tab = CmdTab
           /\ known
           /\ \/ last.op = "on_url_change"
              \/ /\ last.op \in {"on_go_back", "on_go_forward"}
                 /\ last.ret.value # None)
          => LET b == browsers[CmdTab]
                 b2 == browsers'[CmdTab]
                 left == C35_LeftIndex(b)
             IN /\ b2.history_index = b.history_index
                /\ At(b2, b.history_index).title = ti
                /\ At(b2, left).title = At(b, left).title
                /\ \A i \in 0..LastIndex(b) :
                      i # b.history_index =>
                         At(b2, i).title = At(b, i).title]_vars

\* the latest title is on the entry at the cursor, which is not the last
\* one: the entry after it has no title and the one before has the other
\* title
C35_Witness ==
    /\ last.op = "on_title_change"
    /\ known
    /\ LET b == browsers[last.tab]
       IN /\ b.title = "Other Page"
          /\ At(b, b.history_index).title = "Other Page"
          /\ b.can_go_forward
          /\ At(b, b.history_index + 1).title = ""
          /\ b.history_index > 0
          /\ At(b, b.history_index - 1).title = "Example Page"

\* ---- C36: in every state reachable through the public methods of the
\* CefBrowserManager, update_browser included, each stored tab has a
\* non-empty history with history_index < history.len(), so history.len() - 1
\* in on_url_change and on_go_forward never underflows and no call panics
\* while holding the lock.
C36_HistoryNeverEmpty ==
    /\ "browsers" \notin poisoned
    /\ \A t \in DOMAIN browsers :
          /\ Len(browsers[t].history) >= 1
          /\ browsers[t].history_index < Len(browsers[t].history)

\* the topic of the commands that take a tab id only
C37_Topic ==
    [op \in {"cef_go_back", "cef_go_forward", "cef_reload", "cef_stop",
             "cef_switch_tab"} |->
        CASE op = "cef_go_back" -> "cef:navigation-back"
          [] op = "cef_go_forward" -> "cef:navigation-forward"
          [] op = "cef_reload" -> "cef:page-reload"
          [] op = "cef_stop" -> "cef:page-stop"
          [] op = "cef_switch_tab" -> "cef:tab-switched"]

\* ---- C37: the result and the notification of cef_go_back, cef_go_forward,
\* cef_reload, cef_stop and cef_switch_tab do not depend on manager state:
\* for a non-empty tab id, registered or not, with the cursor anywhere, the
\* command returns Ok and emits exactly one notification of its topic with
\* that tab id.
C37_CommandsIgnoreManagerState ==
    [][\A t \in InvalidTabs :
          (/\ t # ""
           /\ \/ cef_go_back(t)
              \/ cef_go_forward(t)
              \/ cef_reload(t)
              \/ cef_stop(t)
              \/ cef_switch_tab(t))
          => /\ last'.op \in DOMAIN C37_Topic
             /\ last'.tab = t
             /\ last'.ret = Ok(None)
             /\ Len(emit') = 1
             /\ emit'[1].topic = C37_Topic[last'.op]
             /\ emit'[1].tab_id = t]_vars

\* cef_go_back has returned Ok and emitted its notification for a tab that
\* no manager knows
C37_Witness ==
    /\ last.op = "cef_go_back"
    /\ last.tab = CmdTab
    /\ last.ret = Ok(None)
    /\ ~known
    /\ CmdTab \notin DOMAIN browsers
    /\ Len(emit) = 1
    /\ emit[1].topic = "cef:navigation-back"
    /\ emit[1].tab_id = CmdTab

====
